---- MODULE Spec2Model ----
(***************************************************************************)
(* The SQL-server client abstraction of dayche: BaseSQLServerClient and   *)
(* its two adapters, PyODBCClient (ODBC) and PyMSSQLClient (TDS wire      *)
(* protocol), together with the error taxonomy of cryptoexceptions.       *)
(*                                                                         *)
(* One client object is modelled.  Its attributes are the record `self`;  *)
(* the native driver's world (which connections and cursors are live) is  *)
(* the record `native`; `last` records what the most recent method call   *)
(* did: the native calls it made, the log records it emitted and the      *)
(* exception that left it.  Every native call may succeed or raise; which *)
(* one happens is an input of the method (its `plan`).                    *)
(***************************************************************************)
EXTENDS Integers, Sequences, FiniteSets, TLC

\* Bound: how many native connections the process may open in one run.
MaxConnections == 2

\* Python's None, as the value of self.conn / self.cursor (handles are 1, 2, ..).
None == 0

\* cause=None, the default of BaseCryptoException.__init__.
NoCause == "<None>"

\* params=None / rows=None, the defaults of execute and executemany.
NoParams == <<"None">>

Classes == {"PyODBCClient", "PyMSSQLClient"}

\* The planned outcome of one native call: it returns, or raises a native
\* failure whose description str(e) is one of Descs (the empty one included).
Ok == "ok"
Descs == {"", "08001"}
Outcomes == {Ok} \cup Descs
\* A plan for a method that attempts at most n native calls.
Plans(n) == [1..n -> Outcomes]
\* The plan of a run in which the network and the server never fail.
AllOk(n) == {[i \in 1..n |-> Ok]}

\* Bound: how many rows table t may hold.
MaxRows == 2

\* Command texts and parameter tuples of the error-handling runs: a query and
\* a command that returns no rows and writes none.
Sqls == {"SELECT a, b FROM t", "SET NOCOUNT ON"}
ParamSets == {NoParams, <<>>, <<"v1">>}

\* Command texts and parameter tuples of the data runs: the query, and the
\* parameterized insert in either placeholder convention.
InsertSqls == {"INSERT INTO t VALUES (%s, %s)", "INSERT INTO t VALUES (?, ?)"}
DataSqls == {"SELECT a, b FROM t"} \cup InsertSqls
DataParams == {NoParams, <<>>, <<"v1", "v2">>}

\* The iterables handed to executemany: None, a list, a one-shot generator
\* (no __len__), and a sized object whose __len__ raises.
RowInputs ==
    { [kind |-> "None", items |-> <<>>],
      [kind |-> "list", items |-> <<>>],
      [kind |-> "list", items |-> << <<"r1", "r2">>, <<"r3", "r4">> >>],
      [kind |-> "generator", items |-> << <<"r1", "r2">>, <<"r3", "r4">> >>],
      [kind |-> "badlen", items |-> << <<"r1", "r2">> >>] }

\* The keyword sets a caller may pass to connect_windows_auth.
WindowsAuthArgs ==
    { {"server", "database"}, {"server", "database", "user", "password"} }

----------------------------------------------------------------------------
(* Exceptions *)

Taxonomy ==
    { "ConfigFileNotFound", "DriverNotInstalled", "DataBaseConnectionError",
      "QueryExecutionError", "TransactionError" }

NoExc == [type |-> "None", message |-> "", cause |-> NoCause]

\* BaseCryptoException.__init__(message, cause=None), for the leaf class `kind`.
BaseCryptoException(kind, message, cause) ==
    [type |-> kind, message |-> message, cause |-> cause]

DataBaseConnectionError(message, cause) ==
    BaseCryptoException("DataBaseConnectionError", message, cause)

QueryExecutionError(message, cause) ==
    BaseCryptoException("QueryExecutionError", message, cause)

TransactionError(message, cause) ==
    BaseCryptoException("TransactionError", message, cause)

\* A failure raised by the native driver, with description d.
NativeError(d) == [type |-> "NativeError", message |-> d, cause |-> NoCause]

\* self.cursor.execute with self.cursor None: Python's attribute lookup fails.
AttributeError(attr) ==
    [type |-> "AttributeError",
     message |-> "'NoneType' object has no attribute '" \o attr \o "'",
     cause |-> NoCause]

\* A call that does not bind the function's required parameters, and list(None).
TypeError(message) == [type |-> "TypeError", message |-> message, cause |-> NoCause]

\* BaseCryptoException.__str__
BaseCryptoException_str(e) ==
    IF e.cause # NoCause /\ e.cause # ""
    THEN e.type \o ": " \o e.message \o " caused by " \o e.cause
    ELSE e.type \o ": " \o e.message

\* str(e), as the except clauses take it.
Str(e) == IF e.type \in Taxonomy THEN BaseCryptoException_str(e) ELSE e.message

----------------------------------------------------------------------------
(* The native drivers (pyodbc, pymssql), seen from the adapter boundary *)

CursorCalls == {"cursor.execute", "cursor.executemany", "cursor.fetchall"}
ReleaseCalls == {"cursor.close", "conn.close"}

\* What the drivers raise by themselves: on use of a released handle, on
\* parameters that do not fit the command's markers, on fetching when the
\* last command left no result set, and (pyodbc) on an empty executemany.
ClosedDesc == "handle is closed"
BindDesc == "parameters do not match the parameter markers"
NoResultDesc == "statement has no resultset"
EmptyBatchDesc == "The second parameter to executemany must not be empty."

\* The driver's reading of a command text.
Stmt(sql) ==
    CASE sql = "SELECT a, b FROM t" -> [verb |-> "SELECT", markers |-> 0, style |-> ""]
      [] sql = "INSERT INTO t VALUES (%s, %s)"
                                  -> [verb |-> "INSERT", markers |-> 2, style |-> "%s"]
      [] sql = "INSERT INTO t VALUES (?, ?)"
                                  -> [verb |-> "INSERT", markers |-> 2, style |-> "?"]
      [] OTHER                    -> [verb |-> "SET", markers |-> 0, style |-> ""]

\* Placeholder convention of each driver.
MarkerOf(driver) == IF driver = "pyodbc" THEN "?" ELSE "%s"

\* The parameter tuple the driver binds, from the arguments of
\* cursor.execute: none when only the text is passed; pyodbc takes a None
\* second argument as one NULL parameter.
Supplied(driver, args) ==
    IF Len(args) < 2 THEN <<>>
    ELSE IF args[2] = NoParams
         THEN (IF driver = "pyodbc" THEN <<"NULL">> ELSE <<>>)
         ELSE args[2]

\* Do the parameters `row` fit command `sql` under the driver's convention?
Binds(driver, sql, row) ==
    /\ Stmt(sql).markers = Len(row)
    /\ Stmt(sql).markers > 0 => Stmt(sql).style = MarkerOf(driver)

\* Is handle h, the target of native call fn, still live?
Live(native, fn, h) ==
    IF fn \in CursorCalls \cup {"cursor.close"}
    THEN h \in native.cursors
    ELSE h \in native.conns

\* What the driver itself raises on native call fn with arguments args on a
\* live handle h, or Ok.
DriverRaised(native, fn, h, args) ==
    CASE fn = "cursor.execute" ->
            IF Binds(native.driver, args[1], Supplied(native.driver, args))
            THEN Ok ELSE BindDesc
      [] fn = "cursor.executemany" ->
            IF args[2] = <<>>
            THEN (IF native.driver = "pyodbc" THEN EmptyBatchDesc ELSE Ok)
            ELSE IF \A i \in 1..Len(args[2]) : Binds(native.driver, args[1], args[2][i])
            THEN Ok ELSE BindDesc
      [] fn = "cursor.fetchall" ->
            IF h \in DOMAIN native.results THEN Ok ELSE NoResultDesc
      [] OTHER -> Ok

\* What native call fn on handle h does under planned outcome r: Ok, or the
\* description it raises.  A released handle cannot be used (the driver
\* raises); whether releasing it once more raises is the driver's choice.
\* On a live handle a planned failure (network, server) comes first, then
\* what the driver itself rejects.
Raised(native, fn, h, args, r) ==
    IF fn \in ReleaseCalls THEN r
    ELSE IF ~Live(native, fn, h) THEN (IF r = Ok THEN ClosedDesc ELSE r)
    ELSE IF r # Ok THEN r
    ELSE DriverRaised(native, fn, h, args)

\* f with f[h] set to v, h added to its domain if need be.
Put(f, h, v) == [x \in DOMAIN f \cup {h} |-> IF x = h THEN v ELSE f[x]]

\* f without h in its domain.
Drop(f, h) == [x \in DOMAIN f \ {h} |-> f[x]]

\* The result set a command leaves on cursor h, given the table after it.
AfterCommand(native, h, sql, table) ==
    [native EXCEPT !.table = table,
                   !.results = IF Stmt(sql).verb = "SELECT"
                               THEN Put(@, h, table) ELSE Drop(@, h)]

\* The effect of a native call that returned.
Effect(native, fn, h, args) ==
    CASE fn = "conn.cursor"  -> [native EXCEPT !.cursors = @ \cup {h}]
      [] fn = "cursor.close" -> [native EXCEPT !.cursors = @ \ {h},
                                               !.results = Drop(@, h)]
      [] fn = "conn.close"   -> [native EXCEPT !.conns = @ \ {h},
                                               !.cursors = @ \ {h},
                                               !.results = Drop(@, h),
                                               !.mode = Drop(@, h)]
      [] fn = "conn.autocommit" -> [native EXCEPT !.mode = Put(@, h, args[1])]
      [] fn = "cursor.execute" ->
            AfterCommand(native, h, args[1],
                         IF Stmt(args[1]).verb = "INSERT"
                         THEN Append(native.table, Supplied(native.driver, args))
                         ELSE native.table)
      [] fn = "cursor.executemany" ->
            AfterCommand(native, h, args[1],
                         IF Stmt(args[1]).verb = "INSERT"
                         THEN native.table \o args[2]
                         ELSE native.table)
      [] fn = "cursor.fetchall" -> [native EXCEPT !.results = Put(@, h, <<>>)]
      [] OTHER               -> native

\* What a native call that returned hands back: fetchall, the pending rows.
Value(native, fn, h) ==
    IF fn = "cursor.fetchall" THEN native.results[h] ELSE <<>>

(* A method runs on a frame: the client's attributes, the native world, the
   native calls made so far, the log records emitted so far, the exception in
   flight (NoExc while the method runs normally) and the return value. *)
Enter(self, native) ==
    [self |-> self, native |-> native, calls |-> <<>>, logs |-> <<>>,
     exc |-> NoExc, ret |-> <<>>, query_length |-> 0]

\* self.logger.<level>(...)
Log(F, level) == [F EXCEPT !.logs = Append(@, level)]

\* raise e
Raise(F, e) == [F EXCEPT !.exc = e]

\* The i-th native call of a method takes the i-th outcome of its plan.
Planned(F, plan) == plan[Len(F.calls) + 1]

\* Evaluate  <h>.<attr>(args)  where h is self.cursor or self.conn: the
\* attribute lookup fails on None; otherwise the native call is made, and it
\* either takes effect or raises.
NativeCall(F, fn, attr, h, args, plan) ==
    IF h = None THEN Raise(F, AttributeError(attr))
    ELSE LET d == Raised(F.native, fn, h, args, Planned(F, plan))
             call == [fn |-> fn, h |-> h, args |-> args,
                      connLive |-> h \in F.native.conns, raised |-> d]
         IN  [F EXCEPT !.calls = Append(@, call),
                       !.native = IF d = Ok THEN Effect(@, fn, h, args) ELSE @,
                       !.ret = IF d = Ok THEN Value(F.native, fn, h) ELSE @,
                       !.exc = IF d = Ok THEN NoExc ELSE NativeError(d)]

\* The autocommit mode of a connection as the driver opens it: pyodbc is
\* given autocommit=self.autocommit in the connect call, pymssql opens with
\* its default, off.
OpenMode(F) == IF F.native.driver = "pyodbc" THEN F.self.autocommit ELSE FALSE

\* self.conn = <driver>.connect(...): opens native connection number
\* opened + 1 and stores it, or raises and stores nothing.
NativeConnect(F, args, plan) ==
    LET d == Planned(F, plan)
        h == F.native.opened + 1
        call == [fn |-> "connect", h |-> h, args |-> args,
                 connLive |-> FALSE, raised |-> d]
    IN  IF d = Ok
        THEN [F EXCEPT !.calls = Append(@, call),
                       !.native.opened = h,
                       !.native.conns = @ \cup {h},
                       !.native.mode = Put(@, h, OpenMode(F)),
                       !.self.conn = h]
        ELSE [F EXCEPT !.calls = Append(@, call), !.exc = NativeError(d)]

\* self.cursor = self.conn.cursor()
NewCursor(F, plan) ==
    LET G == NativeCall(F, "conn.cursor", "cursor", F.self.conn, <<>>, plan)
    IN  IF G.exc = NoExc THEN [G EXCEPT !.self.cursor = F.self.conn] ELSE G

----------------------------------------------------------------------------
(* Python values handed to executemany *)

\* bool(rows), as `rows and hasattr(rows, '__len__')` takes it: the exception
\* it raises (an object whose __len__ raises), or NoExc.
TruthExc(rows) ==
    IF rows.kind = "badlen"
    THEN [type |-> "Exception", message |-> "len failed", cause |-> NoCause]
    ELSE NoExc

\* bool(rows) where it does not raise.
Truthy(rows) ==
    CASE rows.kind = "None" -> FALSE
      [] rows.kind = "list" -> Len(rows.items) > 0
      [] OTHER              -> TRUE

\* hasattr(rows, '__len__')
HasLen(rows) == rows.kind \in {"list", "badlen"}

\* query_length, as lines 180-184 leave it.
QueryLength(rows) ==
    IF TruthExc(rows) # NoExc THEN 0
    ELSE IF Truthy(rows) /\ HasLen(rows) THEN Len(rows.items) ELSE 0

\* list(rows): the exception it raises, or NoExc.  list() asks a sized
\* object for its length before it iterates.
ListExc(rows) ==
    CASE rows.kind = "None"   -> TypeError("'NoneType' object is not iterable")
      [] rows.kind = "badlen" -> TruthExc(rows)
      [] OTHER                -> NoExc

----------------------------------------------------------------------------
(* Construction *)

\* The driver's world before the client opens anything.
NoConnections(driver) ==
    [driver |-> driver, opened |-> 0, conns |-> {}, cursors |-> {},
     table |-> <<>>, results |-> <<>>, mode |-> <<>>]

\* str(e) of the ImportError that `import <module>` raises.
ImportErrorDesc(module) == "No module named '" \o module \o "'"

\* BaseSQLServerClient.__init__: no handles, one debug record.
BaseSQLServerClient_init(cls, autocommit) ==
    Log(Enter([cls |-> cls, conn |-> None, cursor |-> None,
               autocommit |-> autocommit],
              NoConnections(IF cls = "PyODBCClient" THEN "pyodbc" ELSE "pymssql")),
        "debug")

\* PyODBCClient.__init__; loadable: can `import pyodbc` succeed?
PyODBCClient_init(autocommit, loadable) ==
    LET F0 == BaseSQLServerClient_init("PyODBCClient", autocommit)
    IN  IF loadable THEN F0
        ELSE Raise(F0, [type |-> "RuntimeError",
                        message |-> "pyodbc is not installed. pip install pyodbc",
                        cause |-> NoCause])

\* PyMSSQLClient.__init__; loadable: can `import pymssql` succeed?
PyMSSQLClient_init(autocommit, loadable) ==
    LET F0 == BaseSQLServerClient_init("PyMSSQLClient", autocommit)
    IN  IF loadable THEN Log(F0, "info")
        ELSE Raise(F0, BaseCryptoException("DriverNotInstalled",
                           "pymssql is not installed. pip install pymssql",
                           ImportErrorDesc("pymssql")))

----------------------------------------------------------------------------
(* class PyMSSQLClient *)

ConnectArgs ==
    [server |-> "host", database |-> "db", user |-> "sa", password |-> "pw"]

\* connect_sql_auth without line 158: the connection keeps the mode the
\* driver opened it with.
PyMSSQLClient_connect_sql_auth_default_mode(self, native, args, plan) ==
    LET F0 == Log(Enter(self, native), "debug")
        F1 == NativeConnect(F0, args, plan)
        F3 == IF F1.exc # NoExc THEN F1 ELSE NewCursor(F1, plan)
    IN  IF F3.exc = NoExc THEN Log(F3, "info")
        ELSE Raise(Log(F3, "error"),
                   DataBaseConnectionError("pymssql connection failed", Str(F3.exc)))

PyMSSQLClient_connect_sql_auth(self, native, args, plan) ==
    LET F0 == Log(Enter(self, native), "debug")
        F1 == NativeConnect(F0, args, plan)
        F2 == IF F1.exc # NoExc THEN F1
              ELSE NativeCall(F1, "conn.autocommit", "autocommit", F1.self.conn,
                              <<self.autocommit>>, plan)
        F3 == IF F2.exc # NoExc THEN F2 ELSE NewCursor(F2, plan)
    IN  IF F3.exc = NoExc THEN Log(F3, "info")
        ELSE Raise(Log(F3, "error"),
                   DataBaseConnectionError("pymssql connection failed", Str(F3.exc)))

\* Binding a call to  def connect_windows_auth(self, server, database, user,
\* password, **kwargs): every named parameter is required.
BindWindowsAuth(given) ==
    IF {"server", "database", "user", "password"} \subseteq given THEN NoExc
    ELSE TypeError("connect_windows_auth() missing required positional arguments")

PyMSSQLClient_connect_windows_auth(self, native, given) ==
    LET F0 == Enter(self, native)
    IN  IF BindWindowsAuth(given) # NoExc THEN Raise(F0, BindWindowsAuth(given))
        ELSE Raise(Log(F0, "warning"),
                   BaseCryptoException("QueryExecutionError",
                                       "pymssql connection failed", NoCause))

\* execute without the try/except of lines 172-177.
PyMSSQLClient_execute_unwrapped(self, native, sql, params, plan) ==
    NativeCall(Log(Enter(self, native), "debug"), "cursor.execute", "execute",
               self.cursor,
               IF params # NoParams THEN <<sql, params>> ELSE <<sql>>, plan)

\* execute formatting the values into the text, cursor.execute(sql % params),
\* instead of handing them to the driver.
PyMSSQLClient_execute_interpolated(self, native, sql, params, plan) ==
    LET F0 == Log(Enter(self, native), "debug")
        F1 == NativeCall(F0, "cursor.execute", "execute", self.cursor,
                         IF params # NoParams /\ params # <<>>
                         THEN <<sql \o " % " \o params[1]>> ELSE <<sql>>,
                         plan)
    IN  IF F1.exc = NoExc THEN Log(F1, "info")
        ELSE Raise(Log(F1, "error"),
                   QueryExecutionError("pymssql query execution failed", Str(F1.exc)))

PyMSSQLClient_execute(self, native, sql, params, plan) ==
    LET F0 == Log(Enter(self, native), "debug")
        F1 == NativeCall(F0, "cursor.execute", "execute", self.cursor,
                         IF params # NoParams THEN <<sql, params>> ELSE <<sql>>,
                         plan)
    IN  IF F1.exc = NoExc THEN Log(F1, "info")
        ELSE Raise(Log(F1, "error"),
                   QueryExecutionError("pymssql query execution failed", Str(F1.exc)))

PyMSSQLClient_executemany(self, native, sql, rows, plan) ==
    LET F0 == Enter(self, native)
        \* query_length = len(rows) if rows and hasattr(rows, '__len__') else 0
        F1 == [(IF TruthExc(rows) # NoExc THEN Log(F0, "warning") ELSE F0)
                  EXCEPT !.query_length = QueryLength(rows)]
        F2 == IF self.cursor = None THEN Raise(F1, AttributeError("executemany"))
              ELSE IF ListExc(rows) # NoExc THEN Raise(F1, ListExc(rows))
              ELSE NativeCall(F1, "cursor.executemany", "executemany", self.cursor,
                              <<sql, rows.items>>, plan)
    IN  IF F2.exc = NoExc THEN F2
        ELSE Raise(Log(F2, "error"),
                   QueryExecutionError("pymssql query executemany failed", Str(F2.exc)))

\* fetchall without `return rows`: the rows are fetched and dropped.
PyMSSQLClient_fetchall_unreturned(self, native, plan) ==
    LET F0 == Log(Enter(self, native), "debug")
        F1 == NativeCall(F0, "cursor.fetchall", "fetchall", self.cursor, <<>>, plan)
    IN  IF F1.exc = NoExc THEN [Log(F1, "info") EXCEPT !.ret = <<>>]
        ELSE Raise(Log(F1, "error"),
                   QueryExecutionError("pymssql fetchall query execution failed",
                                       Str(F1.exc)))

PyMSSQLClient_fetchall(self, native, plan) ==
    LET F0 == Log(Enter(self, native), "debug")
        F1 == NativeCall(F0, "cursor.fetchall", "fetchall", self.cursor, <<>>, plan)
    IN  IF F1.exc = NoExc THEN Log(F1, "info")
        ELSE Raise(Log(F1, "error"),
                   QueryExecutionError("pymssql fetchall query execution failed",
                                       Str(F1.exc)))

PyMSSQLClient_commit(self, native, plan) ==
    LET F0 == Log(Enter(self, native), "debug")
        F1 == NativeCall(F0, "conn.commit", "commit", self.conn, <<>>, plan)
    IN  IF F1.exc = NoExc THEN Log(F1, "info")
        ELSE Raise(Log(F1, "error"),
                   TransactionError("pymssql commit failed", Str(F1.exc)))

PyMSSQLClient_rollback(self, native, plan) ==
    LET F0 == Log(Enter(self, native), "debug")
        F1 == NativeCall(F0, "conn.rollback", "rollback", self.conn, <<>>, plan)
    IN  IF F1.exc # NoExc
        THEN Raise(Log(F1, "error"),
                   TransactionError("pymssql commit failed", Str(F1.exc)))
        \* line 218: self.conn.rollback() once more, after the try statement
        ELSE NativeCall(Log(F1, "info"), "conn.rollback", "rollback", self.conn,
                        <<>>, plan)

\* close with the connection release after the try body instead of in a
\* finally clause: a failing cursor release skips it.
PyMSSQLClient_close_short_circuit(self, native, plan) ==
    LET F0 == Log(Enter(self, native), "debug")
        F1 == IF self.cursor # None
              THEN NativeCall(F0, "cursor.close", "close", self.cursor, <<>>, plan)
              ELSE F0
    IN  IF F1.exc # NoExc THEN F1
        ELSE IF self.conn # None
        THEN NativeCall(F1, "conn.close", "close", self.conn, <<>>, plan)
        ELSE F1

PyMSSQLClient_close(self, native, plan) ==
    LET F0 == Log(Enter(self, native), "debug")
        \* try: if self.cursor: self.cursor.close()
        F1 == IF self.cursor # None
              THEN NativeCall(F0, "cursor.close", "close", self.cursor, <<>>, plan)
              ELSE F0
        \* finally: try: if self.conn: self.conn.close()
        F2 == IF self.conn # None
              THEN NativeCall(Raise(F1, NoExc), "conn.close", "close", self.conn,
                              <<>>, plan)
              ELSE Raise(F1, NoExc)
        F3 == IF F2.exc = NoExc THEN Log(F2, "info")
              ELSE Raise(Log(F2, "warning"), NoExc)
    \* the exception of the try body, if any, resumes after the finally clause
    IN  Raise(F3, F1.exc)

----------------------------------------------------------------------------
(* class PyODBCClient *)

PyODBCClient_connect_sql_auth(self, native, args, plan) ==
    LET F1 == NativeConnect(Enter(self, native), args, plan)
    IN  IF F1.exc # NoExc THEN F1 ELSE NewCursor(F1, plan)

PyODBCClient_connect_windows_auth(self, native, given, plan) ==
    LET F0 == Enter(self, native)
    IN  IF BindWindowsAuth(given) # NoExc THEN Raise(F0, BindWindowsAuth(given))
        ELSE LET F1 == NativeConnect(F0, given, plan)
             IN  IF F1.exc # NoExc THEN F1 ELSE NewCursor(F1, plan)

PyODBCClient_execute(self, native, sql, params, plan) ==
    NativeCall(Enter(self, native), "cursor.execute", "execute", self.cursor,
               <<sql, params>>, plan)

PyODBCClient_executemany(self, native, sql, rows, plan) ==
    LET F0 == Enter(self, native)
    IN  \* self.cursor.fast_executemany = True
        IF self.cursor = None THEN Raise(F0, AttributeError("fast_executemany"))
        ELSE IF ListExc(rows) # NoExc THEN Raise(F0, ListExc(rows))
        ELSE NativeCall(F0, "cursor.executemany", "executemany", self.cursor,
                        <<sql, rows.items>>, plan)

PyODBCClient_fetchall(self, native, plan) ==
    NativeCall(Enter(self, native), "cursor.fetchall", "fetchall", self.cursor,
               <<>>, plan)

PyODBCClient_commit(self, native, plan) ==
    NativeCall(Enter(self, native), "conn.commit", "commit", self.conn, <<>>, plan)

PyODBCClient_rollback(self, native, plan) ==
    NativeCall(Enter(self, native), "conn.rollback", "rollback", self.conn, <<>>,
               plan)

\* close with the two releases exchanged: the connection goes first.
PyODBCClient_close_connection_first(self, native, plan) ==
    LET F0 == Enter(self, native)
        F1 == IF self.conn # None
              THEN NativeCall(F0, "conn.close", "close", self.conn, <<>>, plan)
              ELSE F0
        F2 == IF self.cursor # None
              THEN NativeCall(Raise(F1, NoExc), "cursor.close", "close", self.cursor,
                              <<>>, plan)
              ELSE Raise(F1, NoExc)
    IN  IF F2.exc # NoExc THEN F2 ELSE Raise(F2, F1.exc)

PyODBCClient_close(self, native, plan) ==
    LET F0 == Enter(self, native)
        \* try: if self.cursor: self.cursor.close()
        F1 == IF self.cursor # None
              THEN NativeCall(F0, "cursor.close", "close", self.cursor, <<>>, plan)
              ELSE F0
        \* finally: if self.conn: self.conn.close()
        F2 == IF self.conn # None
              THEN NativeCall(Raise(F1, NoExc), "conn.close", "close", self.conn,
                              <<>>, plan)
              ELSE Raise(F1, NoExc)
    \* an exception of the finally clause replaces the one of the try body
    IN  IF F2.exc # NoExc THEN F2 ELSE Raise(F2, F1.exc)

----------------------------------------------------------------------------
(* The client as a state machine *)

VARIABLES
    self,       \* the client object: its class, conn, cursor and autocommit flag
    native,     \* the driver's world: live handles, table t, pending result sets
    connected,  \* has a connect_* call of this client ever returned normally?
    last,       \* the most recent method call, as its caller saw it
    peer        \* a PyMSSQLClient given the same calls (paired runs only)

vars == <<self, native, connected, last, peer>>

\* What a finished call leaves for its caller to see; rendered is str(err).
Seen(op, given, before, F0table, F) ==
    [op |-> op, given |-> given, calls |-> F.calls,
     logs |-> F.logs, exc |-> F.exc, ret |-> F.ret,
     query_length |-> F.query_length, rendered |-> Str(F.exc),
     before |-> before, table0 |-> F0table]

\* The constructor call cls(autocommit=...), with the driver importable or not.
Construct(cls, autocommit, loadable) ==
    IF cls = "PyODBCClient" THEN PyODBCClient_init(autocommit, loadable)
    ELSE PyMSSQLClient_init(autocommit, loadable)

\* The state after the constructor call.
Constructing(cls, autocommit, loadable) ==
    LET F == Construct(cls, autocommit, loadable)
    IN  /\ self = F.self
        /\ native = F.native
        /\ connected = FALSE
        /\ last = Seen("__init__",
                       [autocommit |-> autocommit, loadable |-> loadable],
                       F.self, <<>>, F)

Init ==
    /\ \E cls \in Classes, autocommit \in BOOLEAN, loadable \in BOOLEAN :
          Constructing(cls, autocommit, loadable)
    /\ peer = <<>>

\* A constructor that raised leaves no object to call methods on.
Constructed == ~(last.op = "__init__" /\ last.exc # NoExc)

\* Method op of class cls, called on object s in world n with inputs in.
Method(cls, op, s, n, in, plan) ==
    IF cls = "PyODBCClient"
    THEN CASE op = "connect_sql_auth" -> PyODBCClient_connect_sql_auth(s, n, in, plan)
           [] op = "connect_windows_auth" ->
                  PyODBCClient_connect_windows_auth(s, n, in, plan)
           [] op = "execute" -> PyODBCClient_execute(s, n, in.sql, in.params, plan)
           [] op = "executemany" ->
                  PyODBCClient_executemany(s, n, in.sql, in.rows, plan)
           [] op = "fetchall" -> PyODBCClient_fetchall(s, n, plan)
           [] op = "commit" -> PyODBCClient_commit(s, n, plan)
           [] op = "rollback" -> PyODBCClient_rollback(s, n, plan)
           [] op = "close" -> PyODBCClient_close(s, n, plan)
    ELSE CASE op = "connect_sql_auth" -> PyMSSQLClient_connect_sql_auth(s, n, in, plan)
           [] op = "connect_windows_auth" ->
                  PyMSSQLClient_connect_windows_auth(s, n, in)
           [] op = "execute" -> PyMSSQLClient_execute(s, n, in.sql, in.params, plan)
           [] op = "executemany" ->
                  PyMSSQLClient_executemany(s, n, in.sql, in.rows, plan)
           [] op = "fetchall" -> PyMSSQLClient_fetchall(s, n, plan)
           [] op = "commit" -> PyMSSQLClient_commit(s, n, plan)
           [] op = "rollback" -> PyMSSQLClient_rollback(s, n, plan)
           [] op = "close" -> PyMSSQLClient_close(s, n, plan)

\* The model holds at most MaxConnections connections and MaxRows rows.
Fits(n, op, in) ==
    CASE op \in {"connect_sql_auth", "connect_windows_auth"} ->
            n.opened < MaxConnections
      [] op = "execute" ->
            Stmt(in.sql).verb = "INSERT" => Len(n.table) < MaxRows
      [] op = "executemany" ->
            Stmt(in.sql).verb = "INSERT"
                => Len(n.table) + Len(in.rows.items) <= MaxRows
      [] OTHER -> TRUE

\* The caller's view of a finished method call.
Finish(op, given, F) ==
    /\ self' = F.self
    /\ native' = F.native
    /\ connected' = (connected \/ (op \in {"connect_sql_auth", "connect_windows_auth"}
                                   /\ F.exc = NoExc))
    /\ last' = Seen(op, given, self, native.table, F)

\* One call of method op on the client, with inputs and plan drawn from the
\* given sets.
Call(op, inputs, plans) ==
    /\ Constructed
    /\ \E in \in inputs, plan \in plans :
          /\ Fits(native, op, in)
          /\ Finish(op, in, Method(self.cls, op, self, native, in, plan))
    /\ UNCHANGED peer

ExecuteInputs(sqls, paramsets) ==
    { [sql |-> sql, params |-> params] : sql \in sqls, params \in paramsets }

ExecutemanyInputs(sqls) ==
    { [sql |-> sql, rows |-> rows] : sql \in sqls, rows \in RowInputs }

NoInput == { <<>> }

connect_sql_auth == Call("connect_sql_auth", {ConnectArgs}, Plans(3))

connect_windows_auth == Call("connect_windows_auth", WindowsAuthArgs, Plans(2))

execute == Call("execute", ExecuteInputs(Sqls, ParamSets), Plans(1))

executemany == Call("executemany", ExecutemanyInputs(Sqls), Plans(1))

fetchall == Call("fetchall", NoInput, Plans(1))

commit == Call("commit", NoInput, Plans(1))

rollback == Call("rollback", NoInput, Plans(2))

close == Call("close", NoInput, Plans(2))

Next ==
    \/ connect_sql_auth
    \/ connect_windows_auth
    \/ execute
    \/ executemany
    \/ fetchall
    \/ commit
    \/ rollback
    \/ close

\* Error handling: every native call may fail.
Spec == Init /\ [][Next]_vars

----------------------------------------------------------------------------
(* Data runs: the network and the server never fail, commands write and read
   table t.  Only what the driver itself rejects raises. *)

data_connect_sql_auth == Call("connect_sql_auth", {ConnectArgs}, AllOk(3))

data_execute == Call("execute", ExecuteInputs(DataSqls, DataParams), AllOk(1))

data_executemany == Call("executemany", ExecutemanyInputs(DataSqls), AllOk(1))

data_fetchall == Call("fetchall", NoInput, AllOk(1))

data_commit == Call("commit", NoInput, AllOk(1))

data_rollback == Call("rollback", NoInput, AllOk(2))

data_close == Call("close", NoInput, AllOk(2))

DataNext ==
    \/ data_connect_sql_auth
    \/ data_execute
    \/ data_executemany
    \/ data_fetchall
    \/ data_commit
    \/ data_rollback
    \/ data_close

DataSpec == Init /\ [][DataNext]_vars

----------------------------------------------------------------------------
(* Paired runs: a PyODBCClient (self) and a PyMSSQLClient (peer) are given
   the same calls, and in each call every native call has the same outcome. *)

PeerOf(G) ==
    [self |-> G.self, native |-> G.native, calls |-> G.calls, exc |-> G.exc]

PairInit ==
    \E autocommit \in BOOLEAN :
        /\ Constructing("PyODBCClient", autocommit, TRUE)
        /\ peer = PeerOf(Construct("PyMSSQLClient", autocommit, TRUE))

\* Every native call of the method has outcome o.
Uniform(o) == [i \in 1..3 |-> o]

PairCall(op, inputs) ==
    \E in \in inputs, o \in Outcomes :
        /\ Fits(native, op, in) /\ Fits(peer.native, op, in)
        /\ Finish(op, in, Method("PyODBCClient", op, self, native, in, Uniform(o)))
        /\ peer' = PeerOf(Method("PyMSSQLClient", op, peer.self, peer.native, in,
                                 Uniform(o)))

pair_connect_sql_auth == PairCall("connect_sql_auth", {ConnectArgs})

pair_execute == PairCall("execute", ExecuteInputs(Sqls, ParamSets))

pair_executemany == PairCall("executemany", ExecutemanyInputs(Sqls))

pair_fetchall == PairCall("fetchall", NoInput)

pair_commit == PairCall("commit", NoInput)

pair_rollback == PairCall("rollback", NoInput)

pair_close == PairCall("close", NoInput)

PairNext ==
    \/ pair_connect_sql_auth
    \/ pair_execute
    \/ pair_executemany
    \/ pair_fetchall
    \/ pair_commit
    \/ pair_rollback
    \/ pair_close

PairSpec == PairInit /\ [][PairNext]_vars

----------------------------------------------------------------------------
(* Rendering runs: str() of a structured error, for every kind, message and
   cause of the sets below. *)

Kinds == Taxonomy
Messages == {"", "m", "pymssql commit failed", "a caused by b"}
Causes == {NoCause, "", "08001", "c", "x caused by y", "None"}

RenderInit ==
    /\ Constructing("PyMSSQLClient", FALSE, TRUE)
    /\ peer = <<>>

\* err = Kind(message, cause); str(err)
str_exception ==
    /\ \E kind \in Kinds, message \in Messages, cause \in Causes :
          last' = Seen("__str__",
                       [kind |-> kind, message |-> message, cause |-> cause],
                       self, native.table,
                       Raise(Enter(self, native),
                             BaseCryptoException(kind, message, cause)))
    /\ UNCHANGED <<self, native, connected, peer>>

RenderNext == str_exception

RenderSpec == RenderInit /\ [][RenderNext]_vars

----------------------------------------------------------------------------
(* Properties *)

IsMSSQL == self.cls = "PyMSSQLClient"
IsODBC == self.cls = "PyODBCClient"

\* Did the last method call make a native call that raised?
NativeFailed == \E i \in 1..Len(last.calls) : last.calls[i].raised # Ok

\* The description of the first native failure of the last method call.
FirstFailure ==
    LET i == CHOOSE k \in 1..Len(last.calls) :
                 /\ last.calls[k].raised # Ok
                 /\ \A j \in 1..(k - 1) : last.calls[j].raised = Ok
    IN  last.calls[i].raised

\* C1: on PyMSSQLClient, execute, executemany and fetchall on a client on
\* which no connect has ever succeeded raise QueryExecutionError, whatever
\* the command text and the parameters.
C1_QueryBeforeConnect ==
    (IsMSSQL /\ ~connected /\ last.op \in {"execute", "executemany", "fetchall"})
        => last.exc.type = "QueryExecutionError"

\* C1 witness: execute has run on a client whose only connect attempt opened
\* a native connection and then failed, and QueryExecutionError came out.
C1_Witness ==
    /\ IsMSSQL /\ ~connected /\ self.conn # None
    /\ last.op = "execute"
    /\ last.exc.type = "QueryExecutionError"
    /\ last.exc.cause = "'NoneType' object has no attribute 'execute'"

\* C2: on PyMSSQLClient, commit and rollback on a client on which no connect
\* has ever succeeded raise QueryExecutionError, the kind execute and
\* fetchall raise there.
C2_TransactionBeforeConnect ==
    (IsMSSQL /\ ~connected /\ last.op \in {"commit", "rollback"})
        => last.exc.type = "QueryExecutionError"

\* The taxonomy kind PyMSSQLClient gives a native failure of each method.
KindOf(op) ==
    CASE op = "connect_sql_auth" -> "DataBaseConnectionError"
      [] op \in {"execute", "executemany", "fetchall"} -> "QueryExecutionError"
      [] op \in {"commit", "rollback"} -> "TransactionError"
      [] OTHER -> "None"

\* C3: on PyMSSQLClient, a native failure inside connect_sql_auth comes out as
\* DataBaseConnectionError, inside execute, executemany or fetchall as
\* QueryExecutionError, inside commit or rollback as TransactionError, each
\* with the native description as cause; and a method all of whose native
\* calls succeeded returns without raising.
C3_NativeFailuresTranslated ==
    IsMSSQL =>
        /\ (NativeFailed /\ KindOf(last.op) # "None")
              => /\ last.exc.type = KindOf(last.op)
                 /\ last.exc.cause = FirstFailure
        /\ (last.calls # <<>> /\ ~NativeFailed) => last.exc = NoExc

\* C4: every PyODBCClient method returns normally or raises one of the five
\* taxonomy kinds; nothing else escapes.
C4_OdbcOnlyTaxonomy ==
    IsODBC => last.exc.type \in Taxonomy \cup {"None"}

\* C5: close never raises, on either adapter, whichever native release fails.
C5_CloseNeverRaises ==
    last.op = "close" => last.exc = NoExc

\* C6: the second of two close() calls in succession does not fail, and after
\* it both the Connection Handle and the Cursor Handle are released.
C6_CloseIdempotent ==
    [][ (last.op = "close" /\ last'.op = "close")
          => /\ last'.exc = NoExc
             /\ self'.conn \notin native'.conns
             /\ self'.cursor \notin native'.cursors ]_vars

\* C7: when close() runs on a client holding both handles and the native
\* release of the cursor raises, the native release of the connection is
\* still invoked in that same close() call.
C7_CloseStillReleasesConnection ==
    ( /\ last.op = "close"
      /\ last.before.cursor # None /\ last.before.conn # None
      /\ last.calls # <<>>
      /\ last.calls[1].fn = "cursor.close" /\ last.calls[1].raised # Ok )
        => /\ Len(last.calls) = 2
           /\ last.calls[2].fn = "conn.close"
           /\ last.calls[2].h = last.before.conn

\* C7 witness: a close() whose cursor release raised and whose connection
\* release then went through.
C7_Witness ==
    /\ last.op = "close"
    /\ Len(last.calls) = 2
    /\ last.calls[1].fn = "cursor.close" /\ last.calls[1].raised # Ok
    /\ last.calls[2].fn = "conn.close" /\ last.calls[2].raised = Ok
    /\ last.before.conn \notin native.conns

\* C8: at most one native connection opened by the client is live at a time.
C8_AtMostOneLiveConnection ==
    Cardinality(native.conns) <= 1

\* C9: execute, executemany and fetchall never invoke a native cursor
\* operation on a cursor whose connection has been released.
C9_NoCursorUseAfterClose ==
    \A i \in 1..Len(last.calls) :
        last.calls[i].fn \in CursorCalls => last.calls[i].connLive

\* C10: PyMSSQLClient.connect_windows_auth raises QueryExecutionError on every
\* call, also one given only a server and a database, makes no native call
\* and leaves conn and cursor as they were.
C10_WindowsAuthAlwaysQueryError ==
    (IsMSSQL /\ last.op = "connect_windows_auth")
        => /\ last.exc.type = "QueryExecutionError"
           /\ last.calls = <<>>
           /\ self.conn = last.before.conn
           /\ self.cursor = last.before.cursor

\* C11: when a native call of execute raises on a client whose connection is
\* live, the error that leaves execute is a QueryExecutionError, its cause is
\* the native failure's description, and str() of it is
\* "QueryExecutionError: <message> caused by <cause>", for the empty
\* description too.
C11_ExecuteFailureRendered ==
    ( /\ last.op = "execute"
      /\ Len(last.calls) = 1
      /\ last.calls[1].connLive
      /\ last.calls[1].raised # Ok )
        => /\ last.exc.type = "QueryExecutionError"
           /\ last.exc.cause = last.calls[1].raised
           /\ last.rendered = "QueryExecutionError: " \o last.exc.message
                                  \o " caused by " \o last.calls[1].raised

\* C12: constructing either adapter when its native driver cannot be imported
\* raises DriverNotInstalled, and no native call was made.
C12_MissingDriverRaisesDriverNotInstalled ==
    (last.op = "__init__" /\ ~last.given.loadable)
        => /\ last.exc.type = "DriverNotInstalled"
           /\ last.calls = <<>>

\* C13: fetchall on a client whose connection is live, when the last command
\* left no result set and the native fetch says so, does not raise: it
\* returns the empty sequence.
C13_FetchallWithoutResultSet ==
    ( /\ last.op = "fetchall"
      /\ Len(last.calls) = 1
      /\ last.calls[1].connLive
      /\ last.calls[1].raised = NoResultDesc )
        => /\ last.exc = NoExc
           /\ last.ret = <<>>

\* Were both handles the client held before the last call live during it?
\* (For the calls that release nothing.)
HeldLive ==
    /\ last.before.cursor \in native.cursors
    /\ last.before.conn \in native.conns

\* C14: executemany with an empty list on a client whose handles are live
\* does not raise, hands the driver zero parameter rows and leaves table t as
\* it was.
C14_ExecutemanyEmptyInput ==
    ( /\ last.op = "executemany"
      /\ HeldLive
      /\ last.given.rows = [kind |-> "list", items |-> <<>>] )
        => /\ last.exc = NoExc
           /\ Len(last.calls) = 1
           /\ last.calls[1].args[2] = <<>>
           /\ native.table = last.table0

\* C15: in every execute and executemany call, on either adapter, the command
\* text handed to the native driver is the caller's text unchanged, and the
\* parameters (the rows, for executemany) are handed over as the second
\* argument, in the caller's order.
C15_ParametersNeverInText ==
    \A i \in 1..Len(last.calls) :
        /\ last.calls[i].fn = "cursor.execute"
              => /\ last.calls[i].args[1] = last.given.sql
                 /\ last.given.params # NoParams
                       => /\ Len(last.calls[i].args) = 2
                          /\ last.calls[i].args[2] = last.given.params
        /\ last.calls[i].fn = "cursor.executemany"
              => /\ last.calls[i].args[1] = last.given.sql
                 /\ last.calls[i].args[2] = last.given.rows.items

\* C15 witness: an insert with two values went to the driver as the text and
\* the tuple of the two values, and the driver stored them.
C15_Witness ==
    /\ IsMSSQL
    /\ last.op = "execute"
    /\ last.given.params = <<"v1", "v2">>
    /\ Len(last.calls) = 1
    /\ last.calls[1].raised = Ok
    /\ last.calls[1].args = <<"INSERT INTO t VALUES (%s, %s)", <<"v1", "v2">> >>
    /\ native.table = Append(last.table0, <<"v1", "v2">>)

\* Did the native calls the two adapters both made in the last step have the
\* same outcomes, call by call?
SamePattern ==
    \A i \in 1..Len(last.calls) :
        i <= Len(peer.calls) => last.calls[i].raised = peer.calls[i].raised

\* C16: given the same calls and the same native successes and failures,
\* PyODBCClient and PyMSSQLClient end every call the same way: both return,
\* or both raise the same kind of error.
C16_AdaptersInterchangeable ==
    (last.op # "__init__" /\ SamePattern) => last.exc.type = peer.exc.type

\* C17: str() of a structured error of any kind, message and cause is
\* "<Kind>: <message> caused by <cause>" when a cause was given, the empty
\* string included, and "<Kind>: <message>" when none was given.
C17_ErrorRendering ==
    last.op = "__str__"
        => last.rendered =
              IF last.given.cause # NoCause
              THEN last.given.kind \o ": " \o last.given.message
                       \o " caused by " \o last.given.cause
              ELSE last.given.kind \o ": " \o last.given.message

\* One step of the round trip: an insert that returned has appended its
\* parameter values, in the caller's order, as a row of table t; a select
\* that returned has left the rows of t pending on the cursor; a fetchall
\* that returned has returned the pending rows.
RoundTripStep ==
    /\ ( /\ last'.op = "execute" /\ last'.exc = NoExc
         /\ Stmt(last'.given.sql).verb = "INSERT" )
          => native'.table = Append(native.table, last'.given.params)
    /\ ( /\ last'.op = "execute" /\ last'.exc = NoExc
         /\ Stmt(last'.given.sql).verb = "SELECT" )
          => native'.results[self.cursor] = native.table
    /\ (last'.op = "fetchall" /\ last'.exc = NoExc)
          => last'.ret = native.results[self.cursor]

C19_CursorReleasedBeforeConnection ==
    ( /\ last.op = "close"
      /\ last.before.cursor # None /\ last.before.conn # None )
        => /\ last.calls # <<>>
           /\ last.calls[1].fn = "cursor.close"
           /\ last.calls[1].h = last.before.cursor
           /\ \A i \in 1..Len(last.calls) :
                 last.calls[i].fn = "conn.close" => i > 1

\* C19 witness: a close() on PyODBCClient that released the cursor, then the
\* connection, both without failure.
C19_Witness ==
    /\ IsODBC
    /\ last.op = "close"
    /\ Len(last.calls) = 2
    /\ last.calls[1].fn = "cursor.close" /\ last.calls[1].raised = Ok
    /\ last.calls[2].fn = "conn.close" /\ last.calls[2].raised = Ok
    /\ native.conns = {} /\ native.cursors = {}

\* C20: PyMSSQLClient.executemany, on live handles, given a one-shot
\* generator of rows or a sized object whose length query raises, takes the
\* row count as zero and hands all the rows, in order, to one native
\* executemany call; it raises only when that native call does.
C20_ExecutemanyUnsizedInput ==
    ( /\ IsMSSQL
      /\ last.op = "executemany"
      /\ HeldLive
      /\ last.given.rows.kind \in {"generator", "badlen"} )
        => /\ last.query_length = 0
           /\ Len(last.calls) = 1
           /\ last.calls[1].fn = "cursor.executemany"
           /\ last.calls[1].args[2] = last.given.rows.items
           /\ last.calls[1].raised = Ok => last.exc = NoExc

\* One step seen from the autocommit mode: the client's flag stays what the
\* constructor was given; a connect_sql_auth of PyMSSQLClient that returned
\* set the mode of the connection it opened to the flag, after opening it and
\* before creating the cursor; any other call leaves the mode of every
\* connection that stays open as it was.
AutocommitStep ==
    /\ self'.autocommit = self.autocommit
    /\ (self.cls = "PyMSSQLClient" /\ last'.op = "connect_sql_auth"
            /\ last'.exc = NoExc)
          => /\ self'.conn \in native'.conns
             /\ native'.mode[self'.conn] = self.autocommit
             /\ last'.calls[1].fn = "connect"
             /\ last'.calls[2].fn = "conn.autocommit"
             /\ last'.calls[2].h = self'.conn
             /\ last'.calls[2].args = <<self.autocommit>>
             /\ last'.calls[3].fn = "conn.cursor"
    /\ (self.cls = "PyMSSQLClient" /\ last'.op # "connect_sql_auth")
          => \A h \in native'.conns : native'.mode[h] = native.mode[h]

\* C21: on PyMSSQLClient, after every connect_sql_auth that returned, the
\* live connection's autocommit mode is the constructor's flag, set after the
\* connection was opened and before its cursor was created; execute,
\* executemany, fetchall, commit, rollback and close never change it.
C21_AutocommitFixedAtConstruction == [][AutocommitStep]_vars

\* C21 witness: a client constructed with autocommit on has connected, and a
\* later commit found the connection still in autocommit mode.
C21_Witness ==
    /\ IsMSSQL
    /\ self.autocommit
    /\ last.op = "commit" /\ last.exc = NoExc
    /\ self.conn \in native.conns
    /\ native.mode[self.conn]
    /\ self.cursor = self.conn

\* The levels of the log records the last call emitted.
Levels == { last.logs[i] : i \in 1..Len(last.logs) }

\* C22: every close() of PyMSSQLClient emits a debug record first, the info
\* record only when no handle release raised, and a warning record whenever
\* the release of the cursor or of the connection raised.
C22_CloseLogging ==
    (IsMSSQL /\ last.op = "close")
        => /\ last.logs # <<>>
           /\ last.logs[1] = "debug"
           /\ "info" \in Levels => ~NativeFailed
           /\ NativeFailed => "warning" \in Levels

\* C23: whenever PyMSSQLClient.connect_sql_auth raises, conn and cursor are
\* what they were before the call, and no native connection the call opened
\* is still open.
C23_FailedConnectLeavesNothing ==
    (IsMSSQL /\ last.op = "connect_sql_auth" /\ last.exc # NoExc)
        => /\ self.conn = last.before.conn
           /\ self.cursor = last.before.cursor
           /\ \A i \in 1..Len(last.calls) :
                 (last.calls[i].fn = "connect" /\ last.calls[i].raised = Ok)
                     => last.calls[i].h \notin native.conns

\* C24: in every state of a client of either adapter, conn and cursor are
\* both unset or both set, and a cursor that is set was created from the
\* conn the client holds now.
C24_CursorPairedWithConnection ==
    Constructed
        => /\ (self.conn = None) = (self.cursor = None)
           /\ self.cursor # None => self.cursor = self.conn

\* C25: on a PyMSSQLClient whose connection is live, commit() makes exactly
\* one native commit and rollback() exactly one native rollback, and a call
\* whose native call returned returns normally.
C25_OneNativeCallPerTransactionEnd ==
    ( /\ IsMSSQL
      /\ last.op \in {"commit", "rollback"}
      /\ last.before.conn \in native.conns )
        => /\ Len(last.calls) = 1
           /\ last.calls[1].fn = "conn." \o last.op
           /\ last.calls[1].raised = Ok => last.exc = NoExc

====
